---- MODULE Spec2Model ----
(***************************************************************************)
(* A model of lrlex's LexerBuilder (src/lrlex/src/lib/builder.rs): the     *)
(* builder's setters, process_file with its reconciliation, fatal aborts,  *)
(* module name, text generation and read-compare-write of the destination  *)
(* file, and process_file_in_src around it; and of the Yacc grammar parser *)
(* as far as src/tests/test_yaccparser.rs and the specification fix it.    *)
(*                                                                         *)
(* A string is a sequence of one-character strings: the ASCII characters   *)
(* TLA+ can write, the control characters \t, \n, \r and \f among them, so *)
(* that a character is a byte.  The generated text `outs` is kept as the   *)
(* sequence of the strings pushed onto it; the file holds their            *)
(* concatenation.  Option<T> is a sequence of length 0 (None) or 1 (Some). *)
(*                                                                         *)
(* A behaviour is the life of one build: the lexer source, its name and    *)
(* the token map are chosen at the start, and builders are made,           *)
(* configured and run on them again and again, each run finding at the     *)
(* destination what the runs before it left.  Every run may meet the       *)
(* faults the code has a branch for: current_dir, create_dir_all, reading  *)
(* the lexer source and File::create failing, OUT_DIR not set, write_all   *)
(* failing after any number of bytes, remove_file failing on a file that   *)
(* exists, and the destination existing and not being readable.  The lexer *)
(* source, when it is read, is a well-formed lexer definition.  A HashMap  *)
(* is iterated in any order, chosen anew by every run.                     *)
(***************************************************************************)
EXTENDS Integers, Sequences, FiniteSets, TLC

VARIABLES
    inp,        \* the rules of the lexer source file, as parsed
    srcp,       \* the name of the lexer source file under src/
    token_map,  \* the name -> id map the build passes to rule_ids_map
    builder,    \* the LexerBuilder: not made yet, under construction, or consumed
    result,     \* how this builder's run ended
    outs,       \* the text that run generated (<<>> if it did not get that far)
    stderr,     \* what that run printed with eprintln!
    writes,     \* the writes (File::create, write_all) that run did to outp
    removed,    \* what that run's remove_file on outp did: "not_called", "removed",
                \* "absent" (no file was there), "failed" (the file stayed)
    curs,       \* what that run's read_to_string(&outp) gave: "not_called", "ok",
                \* "absent", "unreadable"
    dest,       \* the file at the destination path `outp`: None, or Some(its bytes)
    ysrc,       \* a grammar text handed to parse_yacc
    yres        \* what parse_yacc returned for it

vars == <<inp, srcp, token_map, builder, result, outs, stderr, writes, removed,
          curs, dest, ysrc, yres>>

--------------------------------------------------------------------------
(* Bounds *)

MaxRules == 2
MaxPatLen == 3
MaxItems == 5
MaxCut == 6

--------------------------------------------------------------------------
(* Option, sequences *)

None == <<>>
Some(x) == <<x>>
IsSome(o) == Len(o) = 1
Unwrap(o) == o[1]

Range(s) == {s[i] : i \in 1..Len(s)}

RECURSIVE Concat(_)
Concat(ss) == IF ss = <<>> THEN <<>> ELSE Head(ss) \o Concat(Tail(ss))

SeqsUpTo(S, n) == UNION {[1..k -> S] : k \in 0..n}

\* Every order in which a hash table may yield the elements of S.
Orders(S) == {s \in [1..Cardinality(S) -> S] : Range(s) = S}

--------------------------------------------------------------------------
(* Characters *)

Lower == <<"a","b","c","d","e","f","g","h","i","j","k","l","m",
           "n","o","p","q","r","s","t","u","v","w","x","y","z">>
Upper == <<"A","B","C","D","E","F","G","H","I","J","K","L","M",
           "N","O","P","Q","R","S","T","U","V","W","X","Y","Z">>
Digits == <<"0","1","2","3","4","5","6","7","8","9">>

BackSlash == "\\"
Quote == "\""

\* str::to_ascii_uppercase, one character.
UpperChar(c) ==
    IF \E i \in 1..26 : Lower[i] = c
    THEN Upper[CHOOSE i \in 1..26 : Lower[i] = c]
    ELSE c

to_ascii_uppercase(s) == [i \in 1..Len(s) |-> UpperChar(s[i])]

\* RE_TOKEN_ID: ^[a-zA-Z_][a-zA-Z_0-9]*$
IdStart(c) == c \in Range(Lower) \cup Range(Upper) \cup {"_"}
IdRest(c) == IdStart(c) \/ c \in Range(Digits)
RE_TOKEN_ID(n) ==
    /\ Len(n) >= 1
    /\ IdStart(n[1])
    /\ \A i \in 2..Len(n) : IdRest(n[i])

\* {:?} of an unsigned integer: its decimal digits.
RECURSIVE FmtInt(_)
FmtInt(n) == IF n < 10 THEN <<Digits[n + 1]>>
             ELSE FmtInt(n \div 10) \o <<Digits[(n % 10) + 1]>>

\* str::replace(from, to) for a one-character `from`.
RECURSIVE Replace(_, _, _)
Replace(s, from, to) ==
    IF s = <<>> THEN <<>>
    ELSE (IF Head(s) = from THEN to ELSE <<Head(s)>>) \o Replace(Tail(s), from, to)

\* Faulty variant: the two replacements in the other order.
EscapeQuoteFirst(s) ==
    Replace(Replace(s, Quote, <<BackSlash, Quote>>), BackSlash, <<BackSlash, BackSlash>>)

\* r.re_str.replace("\\", "\\\\").replace("\"", "\\\"")
Escape(s) ==
    Replace(Replace(s, BackSlash, <<BackSlash, BackSlash>>), Quote, <<BackSlash, Quote>>)

\* What {:?} of a str writes for one character: \t, \r, \n, backslash and the
\* double quote as their two-character escapes, any other character that does
\* not print (here the form feed) as \u{..} with its code in hexadecimal, and
\* every printing character, the single quote among them, as it is.
EscapeDebug(c) ==
    CASE c = "\t" -> <<BackSlash, "t">>
      [] c = "\r" -> <<BackSlash, "r">>
      [] c = "\n" -> <<BackSlash, "n">>
      [] c = BackSlash -> <<BackSlash, BackSlash>>
      [] c = Quote -> <<BackSlash, Quote>>
      [] c = "\f" -> <<BackSlash, "u", "{", "c", "}">>
      [] OTHER -> <<c>>

\* {:?} of a string: its characters escaped one by one, between double quotes.
FmtStr(s) ==
    <<Quote>> \o Concat([i \in 1..Len(s) |-> EscapeDebug(s[i])]) \o <<Quote>>

--------------------------------------------------------------------------
(* Paths *)

RECURSIVE LastIndexOf(_, _)
LastIndexOf(s, c) ==
    IF s = <<>> THEN 0
    ELSE IF s[Len(s)] = c THEN Len(s)
    ELSE LastIndexOf(SubSeq(s, 1, Len(s) - 1), c)

\* The pieces of s between the occurrences of c.
RECURSIVE Split(_, _)
Split(s, c) ==
    IF c \notin Range(s) THEN <<s>>
    ELSE LET i == CHOOSE k \in 1..Len(s) : s[k] = c /\ \A j \in 1..(k - 1) : s[j] # c
         IN  <<SubSeq(s, 1, i - 1)>> \o Split(SubSeq(s, i + 1, Len(s)), c)

HasRoot(path) == path # <<>> /\ path[1] = "/"

RootDir == <<"/">>
CurDir == <<".">>
ParentDir == <<".", ".">>

\* The pieces that are components: not the empty ones (repeated and trailing
\* separators), and a "." only where the path begins with it.
RECURSIVE NamedComponents(_, _)
NamedComponents(pieces, i) ==
    IF i > Len(pieces) THEN <<>>
    ELSE (IF pieces[i] = <<>> \/ (pieces[i] = CurDir /\ i > 1) THEN <<>>
          ELSE <<pieces[i]>>)
         \o NamedComponents(pieces, i + 1)

\* Path::components: the root if the path has one, then the named components.
Components(path) ==
    (IF HasRoot(path) THEN <<RootDir>> ELSE <<>>)
    \o NamedComponents(Split(path, "/"), 1)

\* Path::file_name: the last component, if it is a normal one.
file_name(path) ==
    LET cs == Components(path)
    IN  IF cs # <<>> /\ cs[Len(cs)] \notin {RootDir, CurDir, ParentDir}
        THEN Some(cs[Len(cs)])
        ELSE None

\* Path::parent: the path without its last component; None if it has none or
\* ends in the root.
parent(path) ==
    LET cs == Components(path)
    IN  IF cs # <<>> /\ cs[Len(cs)] # RootDir
        THEN Some(SubSeq(cs, 1, Len(cs) - 1))
        ELSE None

\* Path::file_stem: the file name up to its last dot; the whole file name if
\* it has no dot or only the one it begins with; None if there is no file name.
file_stem(path) ==
    LET fn == file_name(path)
    IN  IF fn = None THEN None
        ELSE LET name == Unwrap(fn)
                 dot == LastIndexOf(name, ".")
             IN  Some(IF dot <= 1 THEN name ELSE SubSeq(name, 1, dot - 1))

\* PathBuf::push: an absolute path replaces the buffer, any other is appended
\* after a separator.
PathPush(buf, path) ==
    IF HasRoot(path) THEN path
    ELSE IF buf = <<>> \/ buf[Len(buf)] = "/" THEN buf \o path
    ELSE buf \o <<"/">> \o path

\* The loop that strips every extension: the stem it ends with, or None where
\* its unwrap of file_stem panics.
RECURSIVE StripExtensions(_)
StripExtensions(stem) ==
    LET new_stem == file_stem(stem)
    IN  IF new_stem = None THEN None
        ELSE IF stem = Unwrap(new_stem) THEN Some(stem)
        ELSE StripExtensions(Unwrap(new_stem))

\* let mod_name = match self.mod_name: the name given, or the stem of the path
\* `inp` and "_l".
ModNameOf(mod_name, path) ==
    IF IsSome(mod_name) THEN mod_name
    ELSE LET stem == StripExtensions(path)
         IN  IF stem = None THEN None ELSE Some(Unwrap(stem) \o <<"_", "l">>)

\* The working directory current_dir returns.
Cwd == <<"/", "w">>

\* The path `inp` a build hands to process_file for the lexer source srcp.
InpPath(p) == PathPush(<<"s", "r", "c">>, p)

\* The path `inp` process_file_in_src makes for it.
InSrcPath(p) == PathPush(PathPush(Cwd, <<"s", "r", "c">>), p)

--------------------------------------------------------------------------
(* Lexer rules and the rule-id map *)

\* A lexer Rule: tok_id: Option<StorageT>, name: Option<String>, re_str.
Rule(tok_id, name, re_str) == [tok_id |-> tok_id, name |-> name, re_str |-> re_str]

RuleNames(rules) ==
    {Unwrap(rules[i].name) : i \in {j \in 1..Len(rules) : IsSome(rules[j].name)}}

\* LexerDef::set_rule_ids: every named rule whose name is a key of the map gets
\* the map's id; the keys no named rule carries, and the rule names that are no
\* key, are returned.
SetRuleIds(rules, map) ==
    [rules |-> [i \in 1..Len(rules) |->
                  IF IsSome(rules[i].name) /\ Unwrap(rules[i].name) \in DOMAIN map
                  THEN [rules[i] EXCEPT !.tok_id = Some(map[Unwrap(rules[i].name)])]
                  ELSE rules[i]],
     missing_from_lexer |-> Some(DOMAIN map \ RuleNames(rules)),
     missing_from_parser |-> Some(RuleNames(rules) \ DOMAIN map)]

\* Faulty variant: the two sets of set_rule_ids taken in the other order.
ReconcileSwapped(rule_ids_map, rules) ==
    IF IsSome(rule_ids_map)
    THEN LET r == SetRuleIds(rules, Unwrap(rule_ids_map))
         IN  [lexerdef |-> r.rules,
              missing_from_lexer |-> r.missing_from_parser,
              missing_from_parser |-> r.missing_from_lexer]
    ELSE [lexerdef |-> rules, missing_from_lexer |-> None, missing_from_parser |-> None]

\* Faulty variant: no map reconciled as an empty map.
ReconcileNoneAsEmpty(rule_ids_map, rules) ==
    LET r == SetRuleIds(rules, IF IsSome(rule_ids_map) THEN Unwrap(rule_ids_map) ELSE <<>>)
    IN  [lexerdef |-> r.rules,
         missing_from_lexer |-> r.missing_from_lexer,
         missing_from_parser |-> r.missing_from_parser]

\* process_file, `match self.rule_ids_map`: the lexer definition after the
\* match and the pair (missing_from_lexer, missing_from_parser).
Reconcile(rule_ids_map, rules) ==
    IF IsSome(rule_ids_map)
    THEN LET r == SetRuleIds(rules, Unwrap(rule_ids_map))
         IN  [lexerdef |-> r.rules,
              missing_from_lexer |-> r.missing_from_lexer,
              missing_from_parser |-> r.missing_from_parser]
    ELSE [lexerdef |-> rules, missing_from_lexer |-> None, missing_from_parser |-> None]

\* if !self.allow_missing_terms_in_lexer { if let Some(ref mfl) = missing_from_lexer
AbortsOnLexer(b, rec) ==
    ~b.allow_missing_terms_in_lexer /\ IsSome(rec.missing_from_lexer)

\* if !self.allow_missing_tokens_in_parser { if let Some(ref mfp) = missing_from_parser
AbortsOnParser(b, rec) ==
    ~b.allow_missing_tokens_in_parser /\ IsSome(rec.missing_from_parser)

--------------------------------------------------------------------------
(* The generated text *)

\* type_name::<StorageT>() for the default StorageT.
TypeName == <<"u", "3", "2">>

\* lexerdef_name
LexerdefName ==
    <<"L","R","N","o","n","S","t","r","e","a","m","i","n","g","L","e","x",
      "e","r","D","e","f">>

\* lexerdef_type
LexerdefType == LexerdefName \o <<"<">> \o TypeName \o <<">">>

\* "mod {mod_name} {{\nuse lrlex::{{LexerDef, LRNonStreamingLexerDef, Rule}};\n\n
\*  #[allow(dead_code)]\npub fn lexerdef() -> {lexerdef_type} {{\n    let rules = vec!["
Header(mod_name) ==
    <<"m", "o", "d", " ">> \o mod_name
    \o <<" ","{","\n","u","s","e"," ","l","r","l","e","x",":",":","{","L",
         "e","x","e","r","D","e","f",","," ","L","R","N","o","n","S","t","r",
         "e","a","m","i","n","g","L","e","x","e","r","D","e","f",","," ","R",
         "u","l","e","}",";","\n","\n","#","[","a","l","l","o","w","(","d",
         "e","a","d","_","c","o","d","e",")","]","\n","p","u","b"," ","f",
         "n"," ","l","e","x","e","r","d","e","f","(",")"," ","-",">"," ">>
    \o LexerdefType
    \o <<" ","{","\n"," "," "," "," ","l","e","t"," ","r","u","l","e","s",
         " ","="," ","v","e","c","!","[">>

\* "\nRule::new({}, {}, \"" of a rule's line: tok_id and name.
RuleHead(r) ==
    <<"\n","R","u","l","e",":",":","n","e","w","(">>
    \o (IF IsSome(r.tok_id)
        THEN <<"S", "o", "m", "e", "(">> \o FmtInt(Unwrap(r.tok_id)) \o <<")">>
        ELSE <<"N", "o", "n", "e">>)
    \o <<",", " ">>
    \o (IF IsSome(r.name)
        THEN <<"S", "o", "m", "e", "(">> \o FmtStr(Unwrap(r.name))
             \o <<".","t","o","_","s","t","r","i","n","g","(",")",")">>
        ELSE <<"N", "o", "n", "e">>)
    \o <<",", " ", Quote>>

\* "\".to_string()).unwrap()," of a rule's line.
RuleTail ==
    <<"\"",".","t","o","_","s","t","r","i","n","g","(",")",")",".","u","n",
      "w","r","a","p","(",")",",">>

\* One `Rule::new(..)` line of the rules vector, its pattern escaped as esc.
RuleSegWith(r, esc) == RuleHead(r) \o esc \o RuleTail

RuleSeg(r) == RuleSegWith(r, Escape(r.re_str))

\* "\n];\n    {lexerdef_name}::from_rules(rules)\n}}\n"
Footer ==
    <<"\n", "]", ";", "\n", " ", " ", " ", " ">> \o LexerdefName
    \o <<":",":","f","r","o","m","_","r","u","l","e","s","(","r","u","l","e",
         "s",")","\n","}","\n">>

\* "#[allow(dead_code)]\npub const T_"
ConstHead ==
    <<"#","[","a","l","l","o","w","(","d","e","a","d","_","c","o","d","e",
      ")","]","\n","p","u","b"," ","c","o","n","s","t"," ","T","_">>

\* One token-id constant: "#[allow(dead_code)]\npub const T_{}: {} = {:?};\n"
ConstSeg(n, id) ==
    ConstHead \o to_ascii_uppercase(n)
    \o <<":", " ">> \o TypeName \o <<" ", "=", " ">> \o FmtInt(id) \o <<";", "\n">>

\* for (n, id) in rim { if RE_TOKEN_ID.is_match(n) { .. } }, the map iterated in
\* the order `ord`.
RECURSIVE TokenIds(_, _)
TokenIds(rim, ord) ==
    IF ord = <<>> THEN <<>>
    ELSE (IF RE_TOKEN_ID(Head(ord)) THEN <<ConstSeg(Head(ord), rim[Head(ord)])>> ELSE <<>>)
         \o TokenIds(rim, Tail(ord))

\* The strings pushed onto `outs`, in order.
Generate(mod_name, lexerdef, rule_ids_map, ord) ==
    <<Header(mod_name)>>
    \o [i \in 1..Len(lexerdef) |-> RuleSeg(lexerdef[i])]
    \o <<Footer>>
    \o (IF IsSome(rule_ids_map) THEN TokenIds(Unwrap(rule_ids_map), ord) ELSE <<>>)
    \o << <<"}">> >>

\* The orders in which process_file may iterate self.rule_ids_map.
IterOrders(rule_ids_map) ==
    IF IsSome(rule_ids_map) THEN Orders(DOMAIN Unwrap(rule_ids_map)) ELSE {<<>>}

--------------------------------------------------------------------------
(* LexerBuilder *)

NoMap == <<>>

\* LexerBuilder::new(), before it is called (phase "none") and as it returns.
Defaults(phase) ==
    [phase |-> phase,
     lexerkind |-> "LRNonStreamingLexer",
     mod_name |-> None,
     rule_ids_map |-> None,
     allow_missing_terms_in_lexer |-> FALSE,
     allow_missing_tokens_in_parser |-> TRUE]

\* How a run ends: Ok with the pair, Err from the call `at`, or a panic at `at`.
NoResult ==
    [kind |-> "none", at |-> "", missing_from_lexer |-> None, missing_from_parser |-> None]
Panic(at) ==
    [kind |-> "panic", at |-> at, missing_from_lexer |-> None, missing_from_parser |-> None]
Err(at) ==
    [kind |-> "err", at |-> at, missing_from_lexer |-> None, missing_from_parser |-> None]
Ok(mfl, mfp) ==
    [kind |-> "ok", at |-> "", missing_from_lexer |-> mfl, missing_from_parser |-> mfp]

\* What the environment does to a run: nothing, or the named fault; and
\* whether the destination, if it exists, can be read.
NoFault == [kind |-> "ok", k |-> 0, readable |-> TRUE]
Fault(kind) == [kind |-> kind, k |-> 0, readable |-> TRUE]
Unreadable(io) == [io EXCEPT !.readable = FALSE]

\* What write_all may do to the n bytes of the text: write them all, or fail
\* having written only the first k < n.
WriteOutcomes(n) ==
    {NoFault} \cup {[kind |-> "write_err", k |-> j, readable |-> TRUE] : j \in 0..(n - 1)}

\* A run that ends before it generates or touches anything.
Early(res, d) ==
    [result |-> res, outs |-> <<>>, stderr |-> <<>>, writes |-> 0,
     removed |-> "not_called", curs |-> "not_called", dest |-> d]

\* fs::remove_file(&outp): what it did to the destination d.
RemoveFile(d, io) ==
    IF d = None THEN "absent"
    ELSE IF io.kind = "unlink_err" THEN "failed"
    ELSE "removed"

\* The fatal path: eprintln! of the header and of every name, then
\* fs::remove_file(&outp).ok() and panic!().  .ok() drops what remove_file
\* returned: a file that could not be removed stays as it was.
FatalAbort(d, io, at, header, names) ==
    [result |-> Panic(at), outs |-> <<>>, stderr |-> <<header, names>>,
     writes |-> 0, removed |-> RemoveFile(d, io), curs |-> "not_called",
     dest |-> IF RemoveFile(d, io) = "failed" THEN d ELSE None]

\* read_to_string(&outp): Some(the bytes of the destination), or None for Err.
ReadOutp(d, io) == IF io.readable THEN d ELSE None

\* What the run notes of it.
CursOf(d, io) ==
    IF d = None THEN "absent" ELSE IF io.readable THEN "ok" ELSE "unreadable"

\* Faulty variant: the comparison with the stored text left out.
NeverSame(read, text) == FALSE

\* if let Ok(curs) = read_to_string(&outp) { if curs == outs
SameContents(read, text) == IsSome(read) /\ Unwrap(read) = text

\* The body of process_file for the builder b, the lexer source at `path` with
\* the rules `rules` and the destination d, the map iterated in order ord, the
\* environment doing io.
ProcessFileRun(b, path, rules, d, ord, io) ==
    IF io.kind = "read_err" THEN Early(Err("read_to_string"), d)
    ELSE
    LET rec == Reconcile(b.rule_ids_map, rules)
        mod_name == ModNameOf(b.mod_name, path)
        text == Generate(Unwrap(mod_name), rec.lexerdef, b.rule_ids_map, ord)
        bytes == Concat(text)
    IN  IF AbortsOnLexer(b, rec)
        THEN FatalAbort(d, io, "missing_from_lexer",
                        "Error: the following tokens are used in the grammar but are not defined in the lexer:",
                        Unwrap(rec.missing_from_lexer))
        ELSE IF AbortsOnParser(b, rec)
        THEN FatalAbort(d, io, "missing_from_parser",
                        "Error: the following tokens are defined in the lexer but not used in the grammar:",
                        Unwrap(rec.missing_from_parser))
        ELSE IF mod_name = None
        THEN Early(Panic("file_stem"), d)
        ELSE IF SameContents(ReadOutp(d, io), bytes)
        THEN [result |-> Ok(rec.missing_from_lexer, rec.missing_from_parser),
              outs |-> text, stderr |-> <<>>, writes |-> 0, removed |-> "not_called",
              curs |-> CursOf(d, io), dest |-> d]
        ELSE IF io.kind = "create_err"
        THEN [result |-> Err("File::create"), outs |-> text, stderr |-> <<>>,
              writes |-> 0, removed |-> "not_called", curs |-> CursOf(d, io),
              dest |-> d]
        ELSE IF io.kind = "write_err"
        THEN [result |-> Err("write_all"), outs |-> text, stderr |-> <<>>,
              writes |-> IF io.k > 0 THEN 2 ELSE 1, removed |-> "not_called",
              curs |-> CursOf(d, io), dest |-> Some(SubSeq(bytes, 1, io.k))]
        ELSE [result |-> Ok(rec.missing_from_lexer, rec.missing_from_parser),
              outs |-> text, stderr |-> <<>>, writes |-> 2, removed |-> "not_called",
              curs |-> CursOf(d, io), dest |-> Some(bytes)]

\* The body of process_file_in_src for the source name p.
ProcessFileInSrcRun(b, p, rules, d, ord, io) ==
    IF io.kind = "cwd_err" THEN Early(Err("current_dir"), d)
    ELSE IF io.kind = "no_out_dir" THEN Early(Panic("OUT_DIR"), d)
    ELSE IF parent(p) = None THEN Early(Panic("parent"), d)
    ELSE IF io.kind = "mkdir_err" THEN Early(Err("create_dir_all"), d)
    ELSE IF file_name(p) = None THEN Early(Panic("file_name"), d)
    ELSE ProcessFileRun(b, InSrcPath(p), rules, d, ord, io)

--------------------------------------------------------------------------
(* parse_yacc on a grammar text, given as the sequence of its items:
     "ws"       white space;
     "%%"       the separator;
     "decl"     a declaration, `%start A` or `%token a b c`;
     "unknown"  a %-word that is no declaration keyword, `%woo`, `%fail`;
     "rule"     a whole rule, its name, `:`, alternatives and `;`, as
                `A : 'a';` or `B : 'b' | ;`;
     "head"     a rule opened and not closed, its name, `:` and symbols
                with no `;`, as `A:` or `A : a`;
     "name"     a name that no `:` follows, with the symbols and `;` after
                it, as `A x;` or `x`.
   The AST is the number of rules parsed. *)

Items == {"ws", "%%", "decl", "unknown", "rule", "head", "name"}

Unparsed == [status |-> "unparsed", kind |-> "", ast |-> None]
YaccError(kind) == [status |-> "err", kind |-> kind, ast |-> None]
YaccOk(rules) == [status |-> "ok", kind |-> "", ast |-> Some(rules)]

\* A text on which neither the tests nor the specification fix the outcome:
\* a rule or a name before the first "%%", a declaration after it.
Unspecified == [status |-> "unspecified", kind |-> "", ast |-> None]

RECURSIVE parse_ws(_, _)
parse_ws(src, i) ==
    IF i <= Len(src) /\ src[i] = "ws" THEN parse_ws(src, i + 1) ELSE i

\* After the second "%%", at i: a text that ends there is accepted
\* (test_empty_program, "%%\nA : 'a';\n%%"); anything after it, white space
\* too, opens a program section, which is rejected (test_programs_not_supported,
\* "%% %% x", and the specification, 4.1 and 6).
parse_programs(src, i, rules) ==
    IF i > Len(src) THEN YaccOk(rules)
    ELSE YaccError("ProgramsNotSupported")

\* The rules section from item i on, `rules` rules parsed so far.
RECURSIVE parse_rules(_, _, _)
parse_rules(src, i, rules) ==
    LET j == parse_ws(src, i)
    IN  IF j > Len(src) THEN YaccOk(rules)
        ELSE IF src[j] = "rule" THEN parse_rules(src, j + 1, rules + 1)
        ELSE IF src[j] = "%%" THEN parse_programs(src, j + 1, rules)
        ELSE IF src[j] = "head" THEN YaccError("IncompleteRule")
        ELSE IF src[j] = "name" THEN YaccError("MissingColon")
        ELSE Unspecified

\* The declarations section from item i on, up to the first "%%".
RECURSIVE parse_declarations(_, _)
parse_declarations(src, i) ==
    LET j == parse_ws(src, i)
    IN  IF j > Len(src) THEN YaccError("PrematureEnd")
        ELSE IF src[j] = "%%" THEN parse_rules(src, j + 1, 0)
        ELSE IF src[j] = "decl" THEN parse_declarations(src, j + 1)
        ELSE IF src[j] = "unknown" THEN YaccError("UnknownDeclaration")
        ELSE Unspecified

parse_yacc(src) == parse_declarations(src, 1)

\* The grammar texts of the bound whose outcome is fixed.
YaccTexts ==
    {t \in SeqsUpTo(Items, MaxItems) : parse_yacc(t) # Unspecified}

--------------------------------------------------------------------------
(* Inputs *)

Names == {<<"a">>, <<"A">>, <<"9">>}
ModNames == {<<"m">>}

\* The names of the lexer source: one with an extension, one whose stem is ".".
SrcPaths == {<<"g", ".", "l">>, <<".", ".", "l">>}

\* The id the grammar gives each token.
TokenId(n) == CASE n = <<"a">> -> 1 [] n = <<"A">> -> 2 [] OTHER -> 3

TokenMaps == {[n \in S |-> TokenId(n)] : S \in SUBSET Names}

RulePool ==
    {Rule(Some(0), None, <<"x">>),
     Rule(None, Some(<<"a">>), <<"x">>),
     Rule(Some(0), Some(<<"A">>), <<"x">>)}

\* The lexer sources: up to MaxRules rules of the pool, none of them twice.
RuleLists ==
    {s \in SeqsUpTo(RulePool, MaxRules) :
        \A i, j \in 1..Len(s) : i # j => s[i] # s[j]}

--------------------------------------------------------------------------
(* Actions *)

Building == builder.phase = "building"

RunUnchanged == UNCHANGED <<result, outs, stderr, writes, removed, curs, dest>>
Fixed == UNCHANGED <<inp, srcp, token_map, ysrc, yres>>

\* LexerBuilder::new()
New ==
    /\ builder.phase \in {"none", "consumed"}
    /\ builder' = Defaults("building")
    /\ result' = NoResult
    /\ outs' = <<>>
    /\ stderr' = <<>>
    /\ writes' = 0
    /\ removed' = "not_called"
    /\ curs' = "not_called"
    /\ UNCHANGED dest
    /\ Fixed

\* LexerBuilder::lexerkind
Lexerkind ==
    /\ Building
    /\ builder' = [builder EXCEPT !.lexerkind = "LRNonStreamingLexer"]
    /\ RunUnchanged
    /\ Fixed

\* LexerBuilder::mod_name
ModName ==
    /\ Building
    /\ \E m \in ModNames : builder' = [builder EXCEPT !.mod_name = Some(m)]
    /\ RunUnchanged
    /\ Fixed

\* LexerBuilder::rule_ids_map
RuleIdsMap ==
    /\ Building
    /\ builder' = [builder EXCEPT !.rule_ids_map = Some(token_map)]
    /\ RunUnchanged
    /\ Fixed

\* LexerBuilder::allow_missing_terms_in_lexer
AllowMissingTermsInLexer ==
    /\ Building
    /\ \E allow \in BOOLEAN :
          builder' = [builder EXCEPT !.allow_missing_terms_in_lexer = allow]
    /\ RunUnchanged
    /\ Fixed

\* LexerBuilder::allow_missing_tokens_in_parser
AllowMissingTokensInParser ==
    /\ Building
    /\ \E allow \in BOOLEAN :
          builder' = [builder EXCEPT !.allow_missing_tokens_in_parser = allow]
    /\ RunUnchanged
    /\ Fixed

\* What the environment may do to a run of process_file: fail the reading of
\* the lexer source; in a run that aborts on a destination that exists, fail
\* remove_file; in a run that gets to the destination, fail the reading of a
\* destination that exists, and, unless the run finds its text there, fail
\* File::create or write_all.
IoOutcomes(b, path, rules, d, ord) ==
    LET rec == Reconcile(b.rule_ids_map, rules)
        mod_name == ModNameOf(b.mod_name, path)
        bytes == Concat(Generate(Unwrap(mod_name), rec.lexerdef, b.rule_ids_map, ord))
        writing == {Fault("create_err")} \cup WriteOutcomes(Len(bytes))
    IN  {Fault("read_err")} \cup
        (IF AbortsOnLexer(b, rec) \/ AbortsOnParser(b, rec)
         THEN {NoFault} \cup (IF IsSome(d) THEN {Fault("unlink_err")} ELSE {})
         ELSE IF mod_name = None
         THEN {NoFault}
         ELSE (IF SameContents(ReadOutp(d, NoFault), bytes) THEN {NoFault} ELSE writing)
              \cup (IF IsSome(d) THEN {Unreadable(io) : io \in writing} ELSE {}))

\* And to a run of process_file_in_src.
InSrcOutcomes(b, p, rules, d, ord) ==
    {Fault("cwd_err"), Fault("no_out_dir"), Fault("mkdir_err")}
    \cup IoOutcomes(b, InSrcPath(p), rules, d, ord)

\* The writes that fail do so within the first MaxCut bytes.
WithinCut(outcomes) == {io \in outcomes : io.k <= MaxCut}

\* The run `run` is how the builder's life ends.
Ends(run) ==
    /\ result' = run.result
    /\ outs' = run.outs
    /\ stderr' = run.stderr
    /\ writes' = run.writes
    /\ removed' = run.removed
    /\ curs' = run.curs
    /\ dest' = run.dest
    /\ builder' = [builder EXCEPT !.phase = "consumed"]

\* LexerBuilder::process_file
ProcessFile ==
    /\ Building
    /\ \E ord \in IterOrders(builder.rule_ids_map) :
       \E io \in WithinCut(IoOutcomes(builder, InpPath(srcp), inp, dest, ord)) :
          Ends(ProcessFileRun(builder, InpPath(srcp), inp, dest, ord, io))
    /\ Fixed

\* LexerBuilder::process_file_in_src
ProcessFileInSrc ==
    /\ Building
    /\ \E ord \in IterOrders(builder.rule_ids_map) :
       \E io \in WithinCut(InSrcOutcomes(builder, srcp, inp, dest, ord)) :
          Ends(ProcessFileInSrcRun(builder, srcp, inp, dest, ord, io))
    /\ Fixed

InitRun ==
    /\ builder = Defaults("none")
    /\ result = NoResult
    /\ outs = <<>>
    /\ stderr = <<>>
    /\ writes = 0
    /\ removed = "not_called"
    /\ curs = "not_called"
    /\ dest = None

Init ==
    /\ inp \in RuleLists
    /\ srcp \in SrcPaths
    /\ token_map \in TokenMaps
    /\ InitRun
    /\ ysrc = <<>>
    /\ yres = Unparsed

\* parse_yacc(&src)
ParseYacc ==
    /\ yres = Unparsed
    /\ yres' = parse_yacc(ysrc)
    /\ UNCHANGED <<inp, srcp, token_map, builder, result, outs, stderr, writes,
                   removed, curs, dest, ysrc>>

Next ==
    \/ New
    \/ Lexerkind
    \/ ModName
    \/ RuleIdsMap
    \/ AllowMissingTermsInLexer
    \/ AllowMissingTokensInParser
    \/ ProcessFile
    \/ ProcessFileInSrc

Spec == Init /\ [][Next]_vars

\* The builder on one rule with any pattern of the alphabet, anonymous or with
\* a name that {:?} escapes.
PatAlphabet == {BackSlash, Quote, "x"}
Patterns == SeqsUpTo(PatAlphabet, MaxPatLen)
EscapedNames == {<<"a", "\t", "\"", "\f">>}

InitEscape ==
    /\ inp \in {<<Rule(None, n, p)>> :
                   n \in {None} \cup {Some(e) : e \in EscapedNames}, p \in Patterns}
    /\ srcp = <<"g", ".", "l">>
    /\ token_map = NoMap
    /\ InitRun
    /\ ysrc = <<>>
    /\ yres = Unparsed

SpecEscape == InitEscape /\ [][Next]_vars

\* parse_yacc on every grammar text of the bound.
InitYacc ==
    /\ inp = <<>>
    /\ srcp = <<"g", ".", "l">>
    /\ token_map = NoMap
    /\ InitRun
    /\ ysrc \in YaccTexts
    /\ yres = Unparsed

NextYacc == ParseYacc

SpecYacc == InitYacc /\ [][NextYacc]_vars

--------------------------------------------------------------------------
(* Properties *)

Done == builder.phase = "consumed"
Generated == Done /\ outs # <<>>

\* The run took the fatal path of a reconciliation mismatch.
Aborted == Done /\ result.at \in {"missing_from_lexer", "missing_from_parser"}

\* The run got as far as the reconciliation.
Reconciled ==
    /\ Done
    /\ result.at \notin {"current_dir", "OUT_DIR", "parent", "create_dir_all",
                         "file_name", "read_to_string"}

\* A step of process_file or process_file_in_src.
RunStep == Building /\ builder'.phase = "consumed"

Keys == IF IsSome(builder.rule_ids_map) THEN DOMAIN Unwrap(builder.rule_ids_map) ELSE {}

\* The id_map keys that name no named lexer rule, and the names of lexer rules
\* that are no id_map key.
NotInLexer ==
    {k \in Keys : ~\E i \in 1..Len(inp) : inp[i].name = Some(k)}
NotInParser ==
    {n \in Names : /\ \E i \in 1..Len(inp) : inp[i].name = Some(n)
                   /\ n \notin Keys}

\* The files process_file may generate for the builder b, one per iteration order.
PossibleTexts(b) ==
    LET mod_name == ModNameOf(b.mod_name, InpPath(srcp))
    IN  IF mod_name = None THEN {}
        ELSE {Concat(Generate(Unwrap(mod_name), Reconcile(b.rule_ids_map, inp).lexerdef,
                              b.rule_ids_map, o)) :
                 o \in IterOrders(b.rule_ids_map)}

\* Every complete artifact a run on these inputs may generate.
CompleteArtifacts ==
    UNION {PossibleTexts([Defaults("building") EXCEPT !.mod_name = m, !.rule_ids_map = r]) :
              m \in {None} \cup {Some(x) : x \in ModNames},
              r \in {None, Some(token_map)}}

\* C1: a run that aborts over a reconciliation mismatch leaves no file at the
\* destination and has written nothing to it, whatever the destination held
\* before.
C1_AbortLeavesNoFile ==
    Aborted => (result.kind = "panic" /\ dest = None /\ writes = 0)

\* C2: a run whose generated text is the text it reads at the destination
\* writes nothing, leaves the file as it is and returns Ok with the diagnostic
\* pair; a run that writes found the destination absent, unreadable or holding
\* another text.
C2_SkipsIdenticalWrite ==
    [][RunStep /\ outs' # <<>> =>
        /\ (dest = Some(Concat(outs')) /\ curs' = "ok") =>
              /\ writes' = 0
              /\ dest' = dest
              /\ result' = Ok(Reconcile(builder.rule_ids_map, inp).missing_from_lexer,
                              Reconcile(builder.rule_ids_map, inp).missing_from_parser)
        /\ writes' > 0 => \/ dest = None
                          \/ curs' = "unreadable"
                          \/ Unwrap(dest) # Concat(outs')]_vars

\* A run that found its own text at the destination and wrote nothing.
C2_Witness ==
    /\ Generated
    /\ result.kind = "ok"
    /\ writes = 0
    /\ curs = "ok"
    /\ dest = Some(Concat(outs))
    /\ IsSome(builder.rule_ids_map)

\* C3: a run on the logical inputs that produced the file at the destination,
\* and that reads it, generates that very text again, and so skips the write.
C3_OutputIndependentOfMapOrder ==
    [][(/\ RunStep
        /\ result'.kind = "ok"
        /\ curs' = "ok"
        /\ IsSome(dest)
        /\ Unwrap(dest) \in PossibleTexts(builder))
          => (Concat(outs') = Unwrap(dest) /\ writes' = 0)]_vars

\* C4: with an id_map, missing_from_lexer is the set of keys that name no named
\* rule and missing_from_parser the set of rule names that are no key (anonymous
\* rules in neither); both are Some({}) when the keys are the rule names.
C4_ReconcileSets ==
    (Reconciled /\ IsSome(builder.rule_ids_map)) =>
        /\ result.kind = "ok" =>
              /\ result.missing_from_lexer = Some(NotInLexer)
              /\ result.missing_from_parser = Some(NotInParser)
              /\ Keys = RuleNames(inp) =>
                    /\ result.missing_from_lexer = Some({})
                    /\ result.missing_from_parser = Some({})
        /\ result.at = "missing_from_lexer" => stderr[2] = NotInLexer
        /\ result.at = "missing_from_parser" => stderr[2] = NotInParser

\* An anonymous rule and the rule A, map key 9: {9} and {A}.
C4_Witness ==
    /\ Done
    /\ result.kind = "ok"
    /\ result.missing_from_lexer = Some({<<"9">>})
    /\ result.missing_from_parser = Some({<<"A">>})
    /\ \E i \in 1..Len(inp) : inp[i].name = None

\* C5: a run that gets to the reconciliation aborts exactly when
\* allow_missing_terms_in_lexer is false and some id_map key is not defined in
\* the lexer, or allow_missing_tokens_in_parser is false and some named lexer
\* rule is not in the id_map.
C5_AbortsIffMissing ==
    Reconciled =>
        (Aborted
           <=> \/ ~builder.allow_missing_terms_in_lexer /\ NotInLexer # {}
               \/ /\ ~builder.allow_missing_tokens_in_parser
                  /\ IsSome(builder.rule_ids_map)
                  /\ NotInParser # {})

\* C6: without an id_map a run never takes the fatal path, returns (None, None),
\* emits every rule with the tok_id and name it had in the lexer source, and no
\* constant.
C6_NoMapPassesThrough ==
    (Done /\ builder.rule_ids_map = None) =>
        /\ ~Aborted
        /\ stderr = <<>>
        /\ removed = "not_called"
        /\ result.kind = "ok" =>
              /\ result.missing_from_lexer = None
              /\ result.missing_from_parser = None
              /\ Generated
        /\ Generated =>
              /\ Len(outs) = Len(inp) + 3
              /\ \A i \in 1..Len(inp) : outs[i + 1] = RuleSeg(inp[i])
              /\ outs[Len(outs) - 1] = Footer
              /\ outs[Len(outs)] = <<"}">>

\* A run without a map, both mismatches fatal, on a rule with a tok_id and a name.
C6_Witness ==
    /\ Done
    /\ builder.rule_ids_map = None
    /\ ~builder.allow_missing_terms_in_lexer
    /\ ~builder.allow_missing_tokens_in_parser
    /\ result.kind = "ok"
    /\ \E i \in 1..Len(inp) : IsSome(inp[i].tok_id) /\ IsSome(inp[i].name)

\* C7: after a run in which write_all failed the destination is absent or holds
\* a complete artifact.
C7_NoPartialArtifact ==
    (Done /\ result.at = "write_all") =>
        (dest = None \/ Unwrap(dest) \in CompleteArtifacts)

\* The token-id constants of a generated text, and the name of one.
ConstsOf(text) == SubSeq(text, Len(inp) + 3, Len(text) - 1)
ConstName(seg) ==
    SubSeq(seg, Len(ConstHead) - 1,
           (CHOOSE i \in 1..Len(seg) : seg[i] = ":" /\ \A j \in 1..(i - 1) : seg[j] # ":") - 1)

\* C8: the text holds one constant per id_map entry whose name matches
\* RE_TOKEN_ID, named T_ and the upper-cased name and holding the entry's id,
\* none for the others, and no two constants of one name.
C8_OneConstantPerToken ==
    (Generated /\ IsSome(builder.rule_ids_map)) =>
        LET rim == Unwrap(builder.rule_ids_map)
            consts == ConstsOf(outs)
        IN  /\ \A n \in DOMAIN rim :
                  Cardinality({i \in 1..Len(consts) : consts[i] = ConstSeg(n, rim[n])})
                      = IF RE_TOKEN_ID(n) THEN 1 ELSE 0
            /\ Len(consts) = Cardinality({n \in DOMAIN rim : RE_TOKEN_ID(n)})
            /\ \A i, j \in 1..Len(consts) :
                  i # j => ConstName(consts[i]) # ConstName(consts[j])

\* The pattern literal of the line emitted for the rule r: what stands between
\* the opening quote and the closing one.
LiteralOf(seg, r) == SubSeq(seg, Len(RuleHead(r)) + 1, Len(seg) - Len(RuleTail))

\* A double-quoted string literal read back: \\ is a backslash, \" a quote.
RECURSIVE ReadBack(_)
ReadBack(s) ==
    IF s = <<>> THEN <<>>
    ELSE IF s[1] = BackSlash /\ Len(s) >= 2 /\ s[2] \in {BackSlash, Quote}
         THEN <<s[2]>> \o ReadBack(SubSeq(s, 3, Len(s)))
    ELSE IF s[1] = BackSlash THEN <<"invalid escape">>
    ELSE <<s[1]>> \o ReadBack(Tail(s))

\* A quote that no backslash escapes (or a backslash that escapes the closing one).
RECURSIVE UnescapedQuote(_)
UnescapedQuote(s) ==
    IF s = <<>> THEN FALSE
    ELSE IF s[1] = BackSlash
         THEN Len(s) = 1 \/ UnescapedQuote(SubSeq(s, 3, Len(s)))
    ELSE s[1] = Quote \/ UnescapedQuote(Tail(s))

\* C9: the pattern literal of every emitted rule reads back as the rule's
\* pattern and holds no unescaped double quote.
C9_EscapeRoundTrip ==
    Generated =>
        \A i \in 1..Len(inp) :
            /\ ReadBack(LiteralOf(outs[i + 1], inp[i])) = inp[i].re_str
            /\ ~UnescapedQuote(LiteralOf(outs[i + 1], inp[i]))

\* A generated rule whose pattern holds a backslash and a double quote.
C9_Witness ==
    /\ Generated
    /\ Len(inp) = 1
    /\ {BackSlash, Quote} \subseteq Range(inp[1].re_str)
    /\ Len(LiteralOf(outs[2], inp[1])) > Len(inp[1].re_str)

\* The parser meets a second "%%", at item j: only white space and
\* declarations before the first, only rules and white space between the two.
SecondSeparatorAt(src, j) ==
    /\ j \in 1..Len(src)
    /\ src[j] = "%%"
    /\ \E i \in 1..(j - 1) :
          /\ src[i] = "%%"
          /\ \A k \in 1..(i - 1) : src[k] \in {"ws", "decl"}
          /\ \A k \in (i + 1)..(j - 1) : src[k] \in {"rule", "ws"}

Parsed == yres.status # "unparsed"

\* C10: a second "%%" after the rules section fails the parse with
\* ProgramsNotSupported and no AST, whether or not any text follows it.
C10_SecondSeparatorAlwaysRejected ==
    (Parsed /\ \E j \in 1..Len(ysrc) : SecondSeparatorAt(ysrc, j)) =>
        yres = YaccError("ProgramsNotSupported")

====
